---------------------------- MODULE Spec2Model ----------------------------
(***************************************************************************)
(* A model of the retrieval-augmented text-to-SQL pipeline:                *)
(*   generate_schema_documents.py       schema extraction, document builder *)
(*   embed_documents_into_vector_db.py  index rebuild, adaptive retrieval   *)
(*   create_sql_query.py                backfill, context assembly,         *)
(*                                      the two validator checks            *)
(*                                                                         *)
(* Python strings that the code only concatenates are sequences of pieces   *)
(* (a piece is a delimiter or a document text); the SQL candidate, which    *)
(* the code upper-cases and searches, is a sequence of characters.          *)
(* A pandas DataFrame is a record [columns, rows]; an exception raised by   *)
(* a function is the result record's field `raised`.                        *)
(***************************************************************************)
EXTENDS Integers, Sequences, FiniteSets, TLC

VARIABLES
    \* ---- retrieval -> backfill -> assembly (one question) ----
    r_pc,               \* position of the request in the pipeline
    documents,          \* the in-memory list of all schema documents
    results,            \* get_relevant_documents: the similarity-search result
    top_results,        \* get_relevant_documents: the returned frame
    docs_text,          \* get_documents_text(top_results)
    table_descriptions, \* extract_table_descriptions(top_results, documents)
    context,            \* the assembled schema context
    r_error,            \* the exception that ended the request, or "none"
    \* ---- validation of one SQL candidate ----
    v_pc,               \* position of the candidate in the validation gate
    sql_query,          \* the candidate, a sequence of characters
    conn,               \* the sqlite3 connection: "open" or "closed"
    db,                 \* the database behind the connection
    kw_result,          \* what check_forbidden_keywords returned
    schema_result,      \* what check_sql_schema_and_syntax returned or raised
    \* ---- schema extraction (make_schema_documents) ----
    e_pc,               \* position in make_schema_documents
    sqlite_master,      \* the database that is introspected
    tables,             \* make_schema_documents: the fetched table names
    e_index,            \* make_schema_documents: the table the loop is at
    schema_documents,   \* make_schema_documents: the documents so far
    \* ---- the vector index ----
    collection,         \* the LanceDB table 'schema_docs'
    last_generation,    \* the documents of the last successful rebuild
    generations,        \* the documents of every successful rebuild
    observed,           \* the rows the last retrieval read
    i_error,            \* the exception the last rebuild raised, or "none"
    rebuilds            \* the number of rebuilds so far

r_vars == <<r_pc, documents, results, top_results, docs_text,
            table_descriptions, context, r_error>>

v_vars == <<v_pc, sql_query, conn, db, kw_result, schema_result>>

e_vars == <<e_pc, sqlite_master, tables, e_index, schema_documents>>

i_vars == <<collection, last_generation, generations, observed, i_error,
            rebuilds>>

vars == <<r_vars, v_vars, e_vars, i_vars>>

\* a database without the table users
NoTable == [exists |-> FALSE, columns |-> {}, rows |-> <<>>]

NoResult == [raised |-> "none", ok |-> FALSE, reason |-> <<>>]

\* the values of a component that takes no part in a specification
RetrievalOff ==
    /\ r_pc = "off"
    /\ documents = <<>>
    /\ results = [columns |-> {}, rows |-> <<>>]
    /\ top_results = [columns |-> {}, rows |-> <<>>]
    /\ docs_text = <<>>
    /\ table_descriptions = <<>>
    /\ context = <<>>
    /\ r_error = "none"

ValidatorOff ==
    /\ v_pc = "off"
    /\ sql_query = <<>>
    /\ conn = "closed"
    /\ db = NoTable
    /\ kw_result = NoResult
    /\ schema_result = NoResult

ExtractOff ==
    /\ e_pc = "off"
    /\ sqlite_master = <<>>
    /\ tables = <<>>
    /\ e_index = 1
    /\ schema_documents = <<>>

IndexOff ==
    /\ collection = [exists |-> FALSE, rows |-> <<>>]
    /\ last_generation = <<>>
    /\ generations = {}
    /\ observed = <<>>
    /\ i_error = "none"
    /\ rebuilds = 0

-----------------------------------------------------------------------------
(* Bounds of the model *)

\* longest similarity-search result that is enumerated
MaxResults == 3
\* largest distance that is enumerated (distances are 0 and 10..MaxDist)
MaxDist == 12
\* most rows the table users starts with
MaxRows == 2
\* most spaces between two words of a candidate
MaxGap == 2
\* most index rebuilds in a run
MaxRebuilds == 3

-----------------------------------------------------------------------------
(* Generic helpers *)

Range(s) == {s[i] : i \in 1..Len(s)}

RECURSIVE Unique(_)
\* pandas Series.unique(): the distinct values in order of first appearance
Unique(s) ==
    IF s = <<>> THEN <<>>
    ELSE LET init == Unique(SubSeq(s, 1, Len(s) - 1))
             last == s[Len(s)]
         IN IF last \in Range(init) THEN init ELSE Append(init, last)

\* the column `col` of a frame's rows, as a sequence
Column(rows, col) == [i \in 1..Len(rows) |-> rows[i][col]]

-----------------------------------------------------------------------------
(* Schema documents of the retrieval universe *)

Doc(id, type, tbl, txt) ==
    [doc_id |-> id, doc_type |-> type, table |-> tbl, text |-> txt]

TableAlbums   == Doc("table:albums", "table", "albums", "Table: albums")
ColTitle      == Doc("column:albums.title", "column", "albums",
                     "Column: albums.title\n")
ColArtistId   == Doc("column:albums.artist_id", "column", "albums",
                     "Column: albums.artist_id\n")
TableArtists  == Doc("table:artists", "table", "artists", "Table: artists")
ColName       == Doc("column:artists.name", "column", "artists",
                     "Column: artists.name\n")
\* a second document with the doc_id of TableAlbums (a stale duplicate)
TableAlbumsOld == Doc("table:albums", "table", "albums", "Table: albums (old)")

\* what the vector index can return
IndexedDocs == {TableAlbums, ColTitle, ColArtistId, TableArtists, ColName}

\* the values `documents` can have: a full extraction, one whose table
\* document for artists is missing (extraction / index generation mismatch),
\* and one that lists a table twice
DocumentLists ==
    { <<TableAlbums, ColTitle, ColArtistId, TableArtists, ColName>>,
      <<TableAlbums, ColTitle, ColArtistId, ColName>>,
      <<TableAlbums, TableAlbumsOld, ColTitle, ColArtistId, TableArtists,
        ColName>> }

-----------------------------------------------------------------------------
(* embed_documents_into_vector_db.py: get_relevant_documents *)

\* .limit(50)
SearchLimit == 50

Distances == {0} \cup (10..MaxDist)

Row(doc, d) ==
    [doc_id |-> doc.doc_id, doc_type |-> doc.doc_type, table |-> doc.table,
     text |-> doc.text, _distance |-> d]

SearchColumns == {"doc_id", "doc_type", "table", "text", "_distance"}

\* What vector_db.search(...).limit(50).to_pandas() can return: at most
\* SearchLimit rows, one per indexed document, ascending by distance.
SearchResults ==
    LET Rows == {Row(doc, d) : doc \in IndexedDocs, d \in Distances}
        Cap  == IF MaxResults < SearchLimit THEN MaxResults ELSE SearchLimit
        Seqs == UNION {[1..n -> Rows] : n \in 0..Cap}
    IN { [columns |-> SearchColumns, rows |-> s] :
           s \in { q \in Seqs :
                     /\ \A i \in 1..(Len(q) - 1) :
                            q[i]._distance <= q[i + 1]._distance
                     /\ \A i, j \in 1..Len(q) :
                            i # j => q[i].doc_id # q[j].doc_id } }

\* pd.DataFrame(): no columns, no rows
EmptyDataFrame == [columns |-> {}, rows |-> <<>>]

\* top_score * 1.10, compared exactly: d <= top_score * 110 / 100
SlackNum == 110
SlackDen == 100

\* mutant: the slack of 5% instead of 10%
WithinThresholdFivePercent(d, top_score) == d * 100 <= top_score * 105

WithinThreshold(d, top_score) == d * SlackDen <= top_score * SlackNum

get_relevant_documents(search) ==
    IF search.rows # <<>>
    THEN LET top_score == search.rows[1]._distance
         IN [columns |-> search.columns,
             rows |-> SelectSeq(search.rows,
                          LAMBDA r : WithinThreshold(r._distance, top_score))]
    ELSE EmptyDataFrame

-----------------------------------------------------------------------------
(* create_sql_query.py: get_documents_text, extract_table_descriptions *)

DocumentStart == "[DOCUMENT_START]\n"
DocumentEnd   == "[DOCUMENT_END]\n\n"

Block(txt) == <<DocumentStart, txt, DocumentEnd>>

RECURSIVE BlocksOf(_)
BlocksOf(rows) ==
    IF rows = <<>> THEN <<>>
    ELSE Block(rows[1].text) \o BlocksOf(Tail(rows))

\* iterrows() yields nothing on a frame without rows; document.text is only
\* read inside the loop
get_documents_text(frame) ==
    [raised |-> "none", value |-> BlocksOf(frame.rows)]

\* the first document of `docs` whose doc_id is `id`, as a sequence of 0 or 1
RECURSIVE FirstWithId(_, _)
FirstWithId(docs, id) ==
    IF docs = <<>> THEN <<>>
    ELSE IF docs[1].doc_id = id THEN <<docs[1]>>
    ELSE FirstWithId(Tail(docs), id)

TableDocId(table_name) ==
    CASE table_name = "albums"  -> "table:albums"
      [] table_name = "artists" -> "table:artists"
      [] OTHER                  -> "table:?"

RECURSIVE BackfillLoop(_, _, _)
\* the loop of lines 49-56 over the unique tables of the column rows
BackfillLoop(table_names, existing_tables, docs) ==
    IF table_names = <<>> THEN <<>>
    ELSE LET table_name == table_names[1]
             rest == BackfillLoop(Tail(table_names), existing_tables, docs)
         IN IF table_name \in existing_tables
            THEN rest
            ELSE LET hit == FirstWithId(docs, TableDocId(table_name))
                 IN (IF hit = <<>> THEN <<>> ELSE Block(hit[1].text)) \o rest

\* mutant: the loop runs over every column row's table, not the unique ones
extract_table_descriptions_no_unique(sql_context_df, docs) ==
    LET rows == sql_context_df.rows
        existing_tables ==
            Range(Column(SelectSeq(rows,
                      LAMBDA r : r.doc_type = "table"), "table"))
        col_sql_context ==
            SelectSeq(rows, LAMBDA r : r.doc_type = "column")
    IN [raised |-> IF {"doc_type", "table"} \subseteq sql_context_df.columns
                   THEN "none" ELSE "KeyError",
        value  |-> BackfillLoop(Column(col_sql_context, "table"),
                                existing_tables, docs)]

\* mutant: tables with a retained table document are not skipped
extract_table_descriptions_no_skip(sql_context_df, docs) ==
    LET rows == sql_context_df.rows
        col_sql_context ==
            SelectSeq(rows, LAMBDA r : r.doc_type = "column")
    IN [raised |-> IF {"doc_type", "table"} \subseteq sql_context_df.columns
                   THEN "none" ELSE "KeyError",
        value  |-> BackfillLoop(Unique(Column(col_sql_context, "table")),
                                {}, docs)]

extract_table_descriptions(sql_context_df, docs) ==
    IF ~ ({"doc_type", "table"} \subseteq sql_context_df.columns)
    THEN \* sql_context_df['doc_type'] on a frame without that column
         [raised |-> "KeyError", value |-> <<>>]
    ELSE LET rows == sql_context_df.rows
             existing_tables ==
                 Range(Column(SelectSeq(rows,
                           LAMBDA r : r.doc_type = "table"), "table"))
             col_sql_context ==
                 SelectSeq(rows, LAMBDA r : r.doc_type = "column")
         IN [raised |-> "none",
             value  |-> BackfillLoop(Unique(Column(col_sql_context, "table")),
                                     existing_tables, docs)]

\* the caller's assembly: backfilled entries after the retrieved documents
assemble_context(text, descriptions) == text \o descriptions

-----------------------------------------------------------------------------
(* The retrieval pipeline of one request *)

RInit ==
    /\ r_pc = "start"
    /\ documents \in DocumentLists
    /\ results = EmptyDataFrame
    /\ top_results = EmptyDataFrame
    /\ docs_text = <<>>
    /\ table_descriptions = <<>>
    /\ context = <<>>
    /\ r_error = "none"
    /\ ValidatorOff
    /\ ExtractOff
    /\ IndexOff

GetRelevantDocuments ==
    /\ r_pc = "start"
    /\ \E search \in SearchResults :
          /\ results' = search
          /\ top_results' = get_relevant_documents(search)
    /\ r_pc' = "retrieved"
    /\ UNCHANGED <<documents, docs_text, table_descriptions, context, r_error>>
    /\ UNCHANGED <<v_vars, e_vars, i_vars>>

GetDocumentsText ==
    /\ r_pc = "retrieved"
    /\ LET out == get_documents_text(top_results)
       IN /\ docs_text' = out.value
          /\ r_error' = out.raised
          /\ r_pc' = IF out.raised = "none" THEN "rendered" ELSE "failed"
    /\ UNCHANGED <<documents, results, top_results, table_descriptions, context>>
    /\ UNCHANGED <<v_vars, e_vars, i_vars>>

\* also enabled after it has run: the caller may ask for the backfill again
ExtractTableDescriptions ==
    /\ r_pc \in {"rendered", "backfilled"}
    /\ LET out == extract_table_descriptions(top_results, documents)
       IN /\ table_descriptions' = out.value
          /\ r_error' = out.raised
          /\ r_pc' = IF out.raised = "none" THEN "backfilled" ELSE "failed"
    /\ UNCHANGED <<documents, results, top_results, docs_text, context>>
    /\ UNCHANGED <<v_vars, e_vars, i_vars>>

AssembleContext ==
    /\ r_pc = "backfilled"
    /\ context' = assemble_context(docs_text, table_descriptions)
    /\ r_pc' = "assembled"
    /\ UNCHANGED <<documents, results, top_results, docs_text,
                   table_descriptions, r_error>>
    /\ UNCHANGED <<v_vars, e_vars, i_vars>>

RNext ==
    \/ GetRelevantDocuments
    \/ GetDocumentsText
    \/ ExtractTableDescriptions
    \/ AssembleContext

SpecRetrieval == RInit /\ [][RNext]_vars

-----------------------------------------------------------------------------
(* Definitions the retrieval claims are stated with *)

NumBlocks(str) == Len(str) \div 3
BlockText(str, k) == str[3 * k - 1]

WellDelimited(str) ==
    /\ Len(str) = 3 * NumBlocks(str)
    /\ \A k \in 1..NumBlocks(str) :
          /\ str[3 * k - 2] = DocumentStart
          /\ str[3 * k] = DocumentEnd

RetrievalTables == {"albums", "artists"}
TableDocs == {TableAlbums, TableAlbumsOld, TableArtists}

\* the tables whose table document has the text `txt`
TablesOfText(txt) == {d.table : d \in {e \in TableDocs : e.text = txt}}

\* the tables with a retained document of type `type`
RetainedTables(type) ==
    {top_results.rows[i].table :
        i \in {j \in 1..Len(top_results.rows) :
                  top_results.rows[j].doc_type = type}}

\* the tables with a retained column document and no retained table document
NeedBackfill == RetainedTables("column") \ RetainedTables("table")

\* ... of which `documents` holds the table document
CanBackfill ==
    {t \in NeedBackfill :
        \E i \in 1..Len(documents) :
            documents[i].doc_type = "table" /\ documents[i].table = t}

\* the number of entries of `str` that describe table t
EntriesFor(str, t) ==
    Cardinality({k \in 1..NumBlocks(str) : t \in TablesOfText(BlockText(str, k))})

Position(rows, r) == CHOOSE i \in 1..Len(rows) : rows[i] = r

BestDistance ==
    CHOOSE d \in {results.rows[i]._distance : i \in 1..Len(results.rows)} :
        \A i \in 1..Len(results.rows) : d <= results.rows[i]._distance

(* C1: for every non-empty search result, ascending by distance, the frame  *)
(* get_relevant_documents returns holds exactly the rows whose distance is  *)
(* <= 1.10 * the smallest distance of the result, each once; it is not      *)
(* empty, it holds the best match, and its rows are in the order of the     *)
(* search result, ascending by distance.                                    *)
C1_AdaptiveThreshold ==
    (r_pc # "start" /\ results.rows # <<>>) =>
        LET kept == top_results.rows
            all  == results.rows
        IN /\ \A i \in 1..Len(all) :
                  (all[i] \in Range(kept)) <=>
                      (all[i]._distance * 100 <= BestDistance * 110)
           /\ Range(kept) \subseteq Range(all)
           /\ Cardinality(Range(kept)) = Len(kept)
           /\ kept # <<>>
           /\ all[1] \in Range(kept)
           /\ \A i, j \in 1..Len(kept) :
                  i < j => /\ Position(all, kept[i]) < Position(all, kept[j])
                           /\ kept[i]._distance <= kept[j]._distance

\* a search result with rows both inside and outside the 10% slack
C1_Witness ==
    /\ r_pc = "retrieved"
    /\ Len(results.rows) = 3
    /\ results.rows[1]._distance = 10
    /\ results.rows[2]._distance = 11
    /\ results.rows[3]._distance = 12
    /\ Len(top_results.rows) = 2

(* C4: the backfill adds at most one entry per table, however many columns  *)
(* of the table are retained, and none for a table that has a table-type    *)
(* document among the retained documents; running it again on the same      *)
(* retained set and document list yields the same additions.                *)
C4_OnePerTable ==
    r_pc \in {"backfilled", "assembled"} =>
        /\ WellDelimited(table_descriptions)
        /\ \A t \in RetrievalTables : EntriesFor(table_descriptions, t) <= 1
        /\ \A t \in RetainedTables("table") :
              EntriesFor(table_descriptions, t) = 0
        /\ \A k \in 1..NumBlocks(table_descriptions) :
              TablesOfText(BlockText(table_descriptions, k)) # {}

C4_RerunSame ==
    [][(r_pc = "backfilled" /\ r_pc' = "backfilled")
          => table_descriptions' = table_descriptions]_vars

\* C4: at most one backfilled entry per table, none for a table whose table
\* document is retained, and the same additions when the backfill is rerun
C4_Backfill == []C4_OnePerTable /\ C4_RerunSame

\* two columns of albums retained without its table document, and the
\* table document of artists retained: one entry, for albums
C4_Witness ==
    /\ r_pc = "backfilled"
    /\ Cardinality({i \in 1..Len(top_results.rows) :
                       /\ top_results.rows[i].doc_type = "column"
                       /\ top_results.rows[i].table = "albums"}) = 2
    /\ RetainedTables("table") = {"artists"}
    /\ NumBlocks(table_descriptions) = 1
    /\ EntriesFor(table_descriptions, "albums") = 1

(* C5: when the similarity search returns no candidate, retrieval returns   *)
(* an empty result and backfill and assembly on it end without an error,    *)
(* with nothing backfilled and an empty context.                            *)
C5_EmptySearch ==
    (r_pc # "start" /\ results.rows = <<>>) =>
        /\ top_results.rows = <<>>
        /\ r_error = "none"
        /\ r_pc # "failed"
        /\ table_descriptions = <<>>
        /\ context = <<>>

(* C6 as stated: for N retrieved documents and M tables needing backfill    *)
(* the context is exactly N + M delimited blocks, the N retrieved documents *)
(* in retrieval order first, then one entry per table needing backfill.     *)
C6_Original ==
    r_pc = "assembled" =>
        LET N == Len(top_results.rows)
            M == Cardinality(NeedBackfill)
        IN /\ WellDelimited(context)
           /\ NumBlocks(context) = N + M
           /\ \A k \in 1..N : BlockText(context, k) = top_results.rows[k].text
           /\ \A t \in NeedBackfill :
                 \E k \in (N + 1)..(N + M) :
                     t \in TablesOfText(BlockText(context, k))

(* C6 as amended: M counts the tables needing backfill whose table document *)
(* is in the document list; a table without one contributes no block.       *)
C6_ContextBlocks ==
    r_pc = "assembled" =>
        LET N == Len(top_results.rows)
            M == Cardinality(CanBackfill)
        IN /\ WellDelimited(context)
           /\ NumBlocks(context) = N + M
           /\ \A k \in 1..N : BlockText(context, k) = top_results.rows[k].text
           /\ \A t \in CanBackfill :
                 \E k \in (N + 1)..(N + M) :
                     /\ t \in TablesOfText(BlockText(context, k))
                     /\ \E i \in 1..Len(documents) :
                           /\ documents[i].doc_id = TableDocId(t)
                           /\ documents[i].text = BlockText(context, k)

\* two retrieved documents in a non-alphabetical order, one backfilled table
C6_Witness ==
    /\ r_pc = "assembled"
    /\ Len(top_results.rows) = 2
    /\ top_results.rows[1].doc_id = "column:artists.name"
    /\ top_results.rows[2].doc_id = "column:albums.title"
    /\ CanBackfill = {"albums"}
    /\ NeedBackfill = {"albums", "artists"}
    /\ NumBlocks(context) = 3

-----------------------------------------------------------------------------
(* Characters and words of the SQL candidates *)

LowerLetters == <<"a", "b", "c", "d", "e", "f", "g", "h", "i", "j", "k", "l", "m", "n", "o", "p", "q", "r", "s", "t", "u", "v", "w", "x", "y", "z">>
UpperLetters == <<"A", "B", "C", "D", "E", "F", "G", "H", "I", "J", "K", "L", "M", "N", "O", "P", "Q", "R", "S", "T", "U", "V", "W", "X", "Y", "Z">>

\* str.upper() and str.lower() on one character
UpperChar(c) ==
    IF \E i \in 1..Len(LowerLetters) : LowerLetters[i] = c
    THEN UpperLetters[CHOOSE i \in 1..Len(LowerLetters) : LowerLetters[i] = c]
    ELSE c

LowerChar(c) ==
    IF \E i \in 1..Len(UpperLetters) : UpperLetters[i] = c
    THEN LowerLetters[CHOOSE i \in 1..Len(UpperLetters) : UpperLetters[i] = c]
    ELSE c

Upper(str) == [i \in 1..Len(str) |-> UpperChar(str[i])]
Lower(str) == [i \in 1..Len(str) |-> LowerChar(str[i])]
\* upper and lower case alternating, as in "dRoP tAbLe"
Mixed(str) ==
    [i \in 1..Len(str) |->
        IF i % 2 = 0 THEN UpperChar(str[i]) ELSE LowerChar(str[i])]

\* Python's `needle in hay` on strings
Contains(hay, needle) ==
    \E i \in 0..(Len(hay) - Len(needle)) :
        SubSeq(hay, i + 1, i + Len(needle)) = needle

W_DROP    == <<"D", "R", "O", "P">>
W_TABLE   == <<"T", "A", "B", "L", "E">>
W_DELETE  == <<"D", "E", "L", "E", "T", "E">>
W_FROM    == <<"F", "R", "O", "M">>
W_INSERT  == <<"I", "N", "S", "E", "R", "T">>
W_INTO    == <<"I", "N", "T", "O">>
W_UPDATE  == <<"U", "P", "D", "A", "T", "E">>
W_ALTER   == <<"A", "L", "T", "E", "R">>
W_SELECT  == <<"S", "E", "L", "E", "C", "T">>
W_SET     == <<"S", "E", "T">>
W_DEFAULT == <<"D", "E", "F", "A", "U", "L", "T">>
W_VALUES  == <<"V", "A", "L", "U", "E", "S">>
W_ADD     == <<"A", "D", "D">>
W_EXPLAIN == <<"E", "X", "P", "L", "A", "I", "N">>
W_QUERY   == <<"Q", "U", "E", "R", "Y">>
W_PLAN    == <<"P", "L", "A", "N">>
W_EQ      == <<"=">>
W_USERS   == <<"U", "S", "E", "R", "S">>
W_ID      == <<"I", "D">>
W_NAME    == <<"N", "A", "M", "E">>
W_NOPE    == <<"N", "O", "P", "E">>

SqlKeywords ==
    {W_DROP, W_TABLE, W_DELETE, W_FROM, W_INSERT, W_INTO, W_UPDATE, W_ALTER,
     W_SELECT, W_SET, W_DEFAULT, W_VALUES, W_ADD, W_EXPLAIN, W_QUERY, W_PLAN,
     W_EQ}

\* the name an identifier token denotes (SQLite folds the case of names)
IdentName(tok) ==
    CASE tok = W_USERS -> "users"
      [] tok = W_ID    -> "id"
      [] tok = W_NAME  -> "name"
      [] tok = W_NOPE  -> "nope"
      [] OTHER         -> "?"

Whitespace == {" ", "\t", "\n"}

RECURSIVE JoinWords(_, _)
JoinWords(words, sep) ==
    IF words = <<>> THEN <<>>
    ELSE IF Len(words) = 1 THEN words[1]
    ELSE words[1] \o sep \o JoinWords(Tail(words), sep)

-----------------------------------------------------------------------------
(* The database engine behind sqlite3.Connection, as far as the validator   *)
(* reaches it: tokenizer, parser, compile step, execution step.             *)

RECURSIVE Tokenize(_, _)
\* the words of `str` between whitespace, upper-cased; `word` is the word
\* being read
Tokenize(str, word) ==
    IF str = <<>>
    THEN IF word = <<>> THEN <<>> ELSE <<word>>
    ELSE IF str[1] \in Whitespace
         THEN (IF word = <<>> THEN <<>> ELSE <<word>>)
                  \o Tokenize(Tail(str), <<>>)
         ELSE Tokenize(Tail(str), Append(word, UpperChar(str[1])))

IsName(tok) == tok \notin SqlKeywords

Stmt(k, t, c, c2) == [kind |-> k, table |-> t, column |-> c, source |-> c2]

\* the statement a token sequence is, or kind "syntax_error"
ParseStatement(toks) ==
    CASE Len(toks) = 4 /\ toks[1] = W_SELECT /\ IsName(toks[2])
              /\ toks[3] = W_FROM /\ IsName(toks[4])
           -> Stmt("select", IdentName(toks[4]), IdentName(toks[2]), "")
      [] Len(toks) = 3 /\ toks[1] = W_DROP /\ toks[2] = W_TABLE
              /\ IsName(toks[3])
           -> Stmt("drop table", IdentName(toks[3]), "", "")
      [] Len(toks) = 3 /\ toks[1] = W_DELETE /\ toks[2] = W_FROM
              /\ IsName(toks[3])
           -> Stmt("delete from", IdentName(toks[3]), "", "")
      [] Len(toks) = 5 /\ toks[1] = W_INSERT /\ toks[2] = W_INTO
              /\ IsName(toks[3]) /\ toks[4] = W_DEFAULT /\ toks[5] = W_VALUES
           -> Stmt("insert into", IdentName(toks[3]), "", "")
      [] Len(toks) = 6 /\ toks[1] = W_UPDATE /\ IsName(toks[2])
              /\ toks[3] = W_SET /\ IsName(toks[4]) /\ toks[5] = W_EQ
              /\ IsName(toks[6])
           -> Stmt("update", IdentName(toks[2]), IdentName(toks[4]),
                   IdentName(toks[6]))
      [] Len(toks) = 5 /\ toks[1] = W_ALTER /\ toks[2] = W_TABLE
              /\ IsName(toks[3]) /\ toks[4] = W_ADD /\ IsName(toks[5])
           -> Stmt("alter table", IdentName(toks[3]), IdentName(toks[5]), "")
      [] OTHER -> Stmt("syntax_error", "", "", "")

\* the error sqlite3_prepare reports for a statement, or "ok"
Compile(database, stmt) ==
    CASE stmt.kind = "syntax_error" -> "syntax error"
      [] stmt.kind # "syntax_error"
            /\ ~ (database.exists /\ stmt.table = "users")
           -> "no such table"
      [] stmt.kind \in {"select", "update"} /\ database.exists
            /\ stmt.table = "users" /\ stmt.column \notin database.columns
           -> "no such column"
      [] stmt.kind = "update" /\ database.exists /\ stmt.table = "users"
            /\ stmt.column \in database.columns
            /\ stmt.source \notin database.columns
           -> "no such column"
      [] stmt.kind = "alter table" /\ database.exists /\ stmt.table = "users"
            /\ stmt.column \in database.columns
           -> "duplicate column name"
      [] OTHER -> "ok"

\* the database after a compiled statement has run
Step(database, stmt) ==
    CASE stmt.kind = "drop table" -> NoTable
      [] stmt.kind = "delete from" -> [database EXCEPT !.rows = <<>>]
      [] stmt.kind = "insert into" ->
            [database EXCEPT !.rows =
                Append(@, [c \in database.columns |->
                              IF c = "id" THEN Len(@) + 1 ELSE 0])]
      [] stmt.kind = "update" ->
            [database EXCEPT !.rows =
                [i \in 1..Len(@) |->
                    [@[i] EXCEPT ![stmt.column] = @[i][stmt.source]]]]
      [] stmt.kind = "alter table" ->
            [database EXCEPT
                !.columns = @ \cup {stmt.column},
                !.rows = [i \in 1..Len(@) |-> @[i] @@ (stmt.column :> 0)]]
      [] OTHER -> database

\* conn.cursor() followed by cursor.execute(text): the exception raised (or
\* "none"), its message, and the database afterwards.  A statement that
\* starts with EXPLAIN QUERY PLAN is compiled and its plan returned; any
\* other statement is compiled and run.
sqlite_execute(connection, database, text) ==
    IF connection # "open"
    THEN [raised |-> "ProgrammingError",
          message |-> "Cannot operate on a closed database.",
          db |-> database]
    ELSE LET toks == Tokenize(text, <<>>)
             explain == /\ Len(toks) >= 3
                        /\ SubSeq(toks, 1, 3) = <<W_EXPLAIN, W_QUERY, W_PLAN>>
             stmt == ParseStatement(IF explain
                                    THEN SubSeq(toks, 4, Len(toks))
                                    ELSE toks)
             err == Compile(database, stmt)
         IN IF err # "ok"
            THEN [raised |-> "OperationalError", message |-> err,
                  db |-> database]
            ELSE [raised |-> "none", message |-> "",
                  db |-> IF explain THEN database ELSE Step(database, stmt)]

\* the exception classes `except sqlite3.Error` catches
SqliteErrorClasses ==
    {"Error", "InterfaceError", "DatabaseError", "DataError",
     "OperationalError", "IntegrityError", "InternalError",
     "ProgrammingError", "NotSupportedError"}

-----------------------------------------------------------------------------
(* create_sql_query.py: the validator *)

FORBIDDEN_KEYWORDS ==
    << [name |-> "DROP TABLE", chars |-> <<"D", "R", "O", "P", " ", "T", "A", "B", "L", "E">>],
       [name |-> "DELETE FROM", chars |-> <<"D", "E", "L", "E", "T", "E", " ", "F", "R", "O", "M">>],
       [name |-> "INSERT INTO", chars |-> <<"I", "N", "S", "E", "R", "T", " ", "I", "N", "T", "O">>],
       [name |-> "UPDATE", chars |-> <<"U", "P", "D", "A", "T", "E">>],
       [name |-> "ALTER TABLE", chars |-> <<"A", "L", "T", "E", "R", " ", "T", "A", "B", "L", "E">>] >>

RECURSIVE JoinNames(_, _)
\* ', '.join(found_forbidden), as pieces
JoinNames(terms, sep) ==
    IF terms = <<>> THEN <<>>
    ELSE IF Len(terms) = 1 THEN <<terms[1].name>>
    ELSE <<terms[1].name, sep>> \o JoinNames(Tail(terms), sep)

\* mutant: the scan without .upper()
check_forbidden_keywords_case_sensitive(query) ==
    LET found_forbidden ==
            SelectSeq(FORBIDDEN_KEYWORDS,
                      LAMBDA term : Contains(query, term.chars))
    IN IF found_forbidden # <<>>
       THEN [raised |-> "none", ok |-> FALSE,
             reason |-> <<"query has forbidden keywords ">>
                            \o JoinNames(found_forbidden, ", ")]
       ELSE [raised |-> "none", ok |-> TRUE, reason |-> <<>>]

check_forbidden_keywords(query) ==
    LET query_upper == Upper(query)
        found_forbidden ==
            SelectSeq(FORBIDDEN_KEYWORDS,
                      LAMBDA term : Contains(query_upper, term.chars))
    IN IF found_forbidden # <<>>
       THEN [raised |-> "none", ok |-> FALSE,
             reason |-> <<"query has forbidden keywords ">>
                            \o JoinNames(found_forbidden, ", ")]
       ELSE [raised |-> "none", ok |-> TRUE, reason |-> <<>>]

ExplainQueryPlan == <<"E", "X", "P", "L", "A", "I", "N", " ", "Q", "U", "E", "R", "Y", " ", "P", "L", "A", "N", " ">>

\* what a try block with `except sqlite3.Error as e: return False, str(e)`
\* makes of the outcome `out` of its body
TryExceptSqliteError(out) ==
    IF out.raised = "none"
    THEN [raised |-> "none", ok |-> TRUE, reason |-> <<>>, db |-> out.db]
    ELSE IF out.raised \in SqliteErrorClasses
    THEN [raised |-> "none", ok |-> FALSE, reason |-> <<out.message>>,
          db |-> out.db]
    ELSE [raised |-> out.raised, ok |-> FALSE, reason |-> <<>>, db |-> out.db]

\* mutant: the query is run as it is, without EXPLAIN QUERY PLAN before it
check_sql_schema_and_syntax_no_explain(connection, database, query) ==
    TryExceptSqliteError(sqlite_execute(connection, database, query))

check_sql_schema_and_syntax(connection, database, query) ==
    TryExceptSqliteError(
        sqlite_execute(connection, database, ExplainQueryPlan \o query))

-----------------------------------------------------------------------------
(* The validation gate on one candidate *)

\* the statements the generator's candidates are made of
Templates ==
    { <<W_SELECT, W_ID, W_FROM, W_USERS>>,
      <<W_SELECT, W_NOPE, W_FROM, W_USERS>>,
      <<W_DROP, W_TABLE, W_USERS>>,
      <<W_DELETE, W_FROM, W_USERS>>,
      <<W_INSERT, W_INTO, W_USERS, W_DEFAULT, W_VALUES>>,
      <<W_UPDATE, W_USERS, W_SET, W_NAME, W_EQ, W_ID>>,
      <<W_ALTER, W_TABLE, W_USERS, W_ADD, W_NOPE>>,
      <<W_DROP, W_TABLE, W_UPDATE>> }

\* the whitespace between two words: 1..MaxGap spaces, a tab or a newline
Gaps == {[i \in 1..n |-> " "] : n \in 1..MaxGap} \cup {<<"\t">>, <<"\n">>}

\* what the language model can answer (the stop sequence ";" keeps the
\* candidate to one statement)
Candidates ==
    UNION { {Upper(JoinWords(t, g)), Lower(JoinWords(t, g)),
             Mixed(JoinWords(t, g))} : t \in Templates, g \in Gaps }

UsersTable(n) ==
    [exists |-> TRUE, columns |-> {"id", "name"},
     rows |-> [i \in 1..n |-> [c \in {"id", "name"} |->
                                  IF c = "id" THEN i ELSE 0]]]

InitialDatabases == {NoTable} \cup {UsersTable(n) : n \in 0..MaxRows}

VInit ==
    /\ v_pc = "idle"
    /\ sql_query = <<>>
    /\ conn \in {"open", "closed"}
    /\ db \in InitialDatabases
    /\ kw_result = NoResult
    /\ schema_result = NoResult
    /\ RetrievalOff
    /\ ExtractOff
    /\ IndexOff

GenerateSql ==
    /\ v_pc = "idle"
    /\ sql_query' \in Candidates
    /\ v_pc' = "generated"
    /\ UNCHANGED <<conn, db, kw_result, schema_result>>
    /\ UNCHANGED <<r_vars, e_vars, i_vars>>

CheckForbiddenKeywords ==
    /\ v_pc = "generated"
    /\ kw_result' = check_forbidden_keywords(sql_query)
    /\ v_pc' = "kw_checked"
    /\ UNCHANGED <<sql_query, conn, db, schema_result>>
    /\ UNCHANGED <<r_vars, e_vars, i_vars>>

CheckSqlSchemaAndSyntax ==
    /\ v_pc = "kw_checked"
    /\ LET out == check_sql_schema_and_syntax(conn, db, sql_query)
       IN /\ schema_result' = [raised |-> out.raised, ok |-> out.ok,
                               reason |-> out.reason]
          /\ db' = out.db
    /\ v_pc' = "validated"
    /\ UNCHANGED <<sql_query, conn, kw_result>>
    /\ UNCHANGED <<r_vars, e_vars, i_vars>>

VNext ==
    \/ GenerateSql
    \/ CheckForbiddenKeywords
    \/ CheckSqlSchemaAndSyntax

SpecValidator == VInit /\ [][VNext]_vars

-----------------------------------------------------------------------------
(* Definitions the validator claims are stated with *)

\* keyword k occurs in `str` when letter case is ignored
OccursIgnoringCase(str, k) ==
    LET kw == FORBIDDEN_KEYWORDS[k].chars
    IN \E i \in 0..(Len(str) - Len(kw)) :
           \A j \in 1..Len(kw) : LowerChar(str[i + j]) = LowerChar(kw[j])

MatchedKeywords(str) ==
    {k \in 1..Len(FORBIDDEN_KEYWORDS) : OccursIgnoringCase(str, k)}

\* the operation the candidate would perform if it were run
CandidateKind == ParseStatement(Tokenize(sql_query, <<>>)).kind

ForbiddenOperations ==
    {"drop table", "delete from", "insert into", "update", "alter table"}

(* C2: check_forbidden_keywords accepts exactly when no forbidden keyword   *)
(* is a substring of the query with letter case ignored; when it rejects,   *)
(* the reason names every keyword that occurs and no other, in the order of *)
(* the list; the query in upper, lower or mixed case gets the same result.  *)
C2_ForbiddenKeywords ==
    v_pc \in {"kw_checked", "validated"} =>
        LET matched == MatchedKeywords(sql_query)
            named == {k \in 1..Len(FORBIDDEN_KEYWORDS) :
                         FORBIDDEN_KEYWORDS[k].name \in Range(kw_result.reason)}
        IN /\ kw_result.raised = "none"
           /\ kw_result.ok <=> (matched = {})
           /\ named = matched
           /\ Len(kw_result.reason) =
                  IF matched = {} THEN 0 ELSE 2 * Cardinality(matched)
           /\ \A i, j \in 1..Len(kw_result.reason) :
                 \A k, l \in matched :
                    (/\ kw_result.reason[i] = FORBIDDEN_KEYWORDS[k].name
                     /\ kw_result.reason[j] = FORBIDDEN_KEYWORDS[l].name
                     /\ k < l) => i < j
           /\ check_forbidden_keywords(Upper(sql_query)) = kw_result
           /\ check_forbidden_keywords(Lower(sql_query)) = kw_result
           /\ check_forbidden_keywords(Mixed(sql_query)) = kw_result

\* a lower-case query with two forbidden keywords: both are reported
C2_Witness ==
    /\ v_pc = "kw_checked"
    /\ sql_query = Lower(JoinWords(<<W_DROP, W_TABLE, W_UPDATE>>, <<" ">>))
    /\ kw_result.ok = FALSE
    /\ kw_result.reason =
           <<"query has forbidden keywords ", "DROP TABLE", ", ", "UPDATE">>

(* C3: no step of the validation gate changes the database: its schema and  *)
(* its rows after check_forbidden_keywords and after                        *)
(* check_sql_schema_and_syntax are what they were before, whether the check *)
(* passes or fails.                                                         *)
C3_ReadOnly == [][db' = db /\ conn' = conn]_vars

\* the compile-only check has passed a DELETE and a DROP on a table that
\* still has its rows
C3_Witness ==
    /\ v_pc = "validated"
    /\ schema_result.ok
    /\ CandidateKind \in {"delete from", "drop table"}
    /\ db.exists
    /\ Len(db.rows) = 2

(* C9: a check on a closed connection ends in a fault raised to the caller, *)
(* never in an ordinary (False, reason) result.                             *)
C9_ConnectionFailurePropagates ==
    (v_pc = "validated" /\ conn = "closed") =>
        /\ schema_result.raised # "none"
        /\ schema_result.ok = FALSE

(* C10: a candidate accepted by both checks performs none of the forbidden  *)
(* operations, whatever its letter case and the whitespace between its      *)
(* words.                                                                   *)
C10_GateIsSafe ==
    (v_pc = "validated" /\ kw_result.ok /\ schema_result.ok) =>
        CandidateKind \notin ForbiddenOperations

-----------------------------------------------------------------------------
(* generate_schema_documents.py: the database that is introspected *)

\* Python's None, and SQL NULL among integer column values
PyNone == "<None>"
SqlNull == -1

ColumnInfo(cid, name, type, notnull, dflt, pk) ==
    [cid |-> cid, name |-> name, type |-> type, notnull |-> notnull,
     dflt_value |-> dflt, pk |-> pk]

ForeignKeyInfo(id, ref_tab, frm_col, to_col) ==
    [id |-> id, seq |-> 0, table |-> ref_tab, from |-> frm_col, to |-> to_col,
     on_update |-> "NO ACTION", on_delete |-> "NO ACTION", match |-> "NONE"]

SqlTable(name, cols, fks, vals) ==
    [name |-> name, columns |-> cols, foreign_keys |-> fks, values |-> vals]

\* orders(id INTEGER PRIMARY KEY, customer_id INTEGER REFERENCES customers(id))
OrdersWithFk ==
    SqlTable("orders",
             <<ColumnInfo(0, "id", "INTEGER", 0, PyNone, 1),
               ColumnInfo(1, "customer_id", "INTEGER", 0, PyNone, 0)>>,
             <<ForeignKeyInfo(0, "customers", "customer_id", "id")>>,
             <<1, 2, 2, SqlNull, 3, 4>>)

\* ... REFERENCES customers, the referenced column left out
OrdersWithFkToPk ==
    SqlTable("orders",
             <<ColumnInfo(0, "id", "INTEGER", 0, PyNone, 1),
               ColumnInfo(1, "customer_id", "INTEGER", 0, PyNone, 0)>>,
             <<ForeignKeyInfo(0, "customers", "customer_id", PyNone)>>,
             <<1, 1>>)

\* orders without a foreign key, on an empty table
OrdersNoFk ==
    SqlTable("orders",
             <<ColumnInfo(0, "id", "INTEGER", 0, PyNone, 1),
               ColumnInfo(1, "customer_id", "INTEGER", 1, "0", 0)>>,
             <<>>, <<>>)

\* orders with a composite primary key, both columns referencing customers
OrdersComposite ==
    SqlTable("orders",
             <<ColumnInfo(0, "id", "INTEGER", 1, PyNone, 1),
               ColumnInfo(1, "customer_id", "INTEGER", 1, PyNone, 2)>>,
             <<ForeignKeyInfo(0, "customers", "customer_id", "id"),
               ForeignKeyInfo(1, "customers", "id", "id")>>,
             <<SqlNull>>)

CustomersPlain ==
    SqlTable("customers",
             <<ColumnInfo(0, "id", "INTEGER", 0, PyNone, 1),
               ColumnInfo(1, "name", "TEXT", 1, PyNone, 0)>>,
             <<>>, <<1, 2>>)

\* a table declared without types and without a primary key
CustomersUntyped ==
    SqlTable("customers",
             <<ColumnInfo(0, "id", "", 0, PyNone, 0)>>,
             <<>>, <<>>)

SqliteSequence ==
    SqlTable("sqlite_sequence",
             <<ColumnInfo(0, "name", "", 0, PyNone, 0),
               ColumnInfo(1, "seq", "", 0, PyNone, 0)>>,
             <<>>, <<>>)

\* The databases that are introspected: sqlite_master in creation order
\* (orders, sqlite_sequence, customers, then an index), each part optional.
Schemas ==
    { o \o s \o c \o x :
        o \in {<<>>, <<OrdersWithFk>>, <<OrdersWithFkToPk>>, <<OrdersNoFk>>,
               <<OrdersComposite>>},
        s \in {<<>>, <<SqliteSequence>>},
        c \in {<<>>, <<CustomersPlain>>, <<CustomersUntyped>>},
        x \in {<<>>, <<[name |-> "idx_orders", columns |-> <<>>,
                        foreign_keys |-> <<>>, values |-> <<>>]>>} }

\* the type column of sqlite_master
MasterType(entry) == IF entry.name = "idx_orders" THEN "index" ELSE "table"

\* name LIKE 'sqlite_%' ("_" matches any one character)
LikeSqlite(name) == name \in {"sqlite_sequence"}

\* ORDER BY name, on the names of the model
NameRank(name) ==
    CASE name = "customers"       -> 1
      [] name = "idx_orders"      -> 2
      [] name = "orders"          -> 3
      [] name = "sqlite_sequence" -> 4

RECURSIVE OrderByName(_)
OrderByName(names) ==
    IF names = <<>> THEN <<>>
    ELSE LET first == CHOOSE n \in Range(names) :
                          \A m \in Range(names) : NameRank(n) <= NameRank(m)
         IN <<first>> \o
            OrderByName(SelectSeq(names, LAMBDA m : m # first))

TableNamed(master, name) ==
    CHOOSE t \in Range(master) : t.name = name

-----------------------------------------------------------------------------
(* generate_schema_documents.py: fetch_*, make_*_document *)

fetch_tables(master) ==
    OrderByName(Column(SelectSeq(master,
        LAMBDA e : MasterType(e) = "table" /\ ~ LikeSqlite(e.name)), "name"))

\* limit: int = 3
SampleLimit == 3

\* SELECT DISTINCT col FROM table WHERE col IS NOT NULL LIMIT ?
\* (every column of the model can be queried: the OperationalError branch,
\* which returns [], is not taken)
fetch_column_samples(tbl, limit) ==
    LET distinct == Unique(SelectSeq(tbl.values, LAMBDA v : v # SqlNull))
    IN SubSeq(distinct, 1, IF Len(distinct) < limit THEN Len(distinct)
                           ELSE limit)

fetch_table_columns(tbl) ==
    [i \in 1..Len(tbl.columns) |->
        LET row == tbl.columns[i]
        IN [cid |-> row.cid, name |-> row.name, type |-> row.type,
            notnull |-> (row.notnull # 0), default |-> row.dflt_value,
            primary_key |-> row.pk,
            samples |-> fetch_column_samples(tbl, SampleLimit)]]

fetch_foreign_keys(tbl) ==
    [i \in 1..Len(tbl.foreign_keys) |->
        LET row == tbl.foreign_keys[i]
        IN [id |-> row.id, seq |-> row.seq, ref_table |-> row.table,
            from_col |-> row.from, to_col |-> row.to,
            on_update |-> row.on_update, on_delete |-> row.on_delete,
            match |-> row.match]]

\* str() of a sampled value
StrOf(v) == <<"0", "1", "2", "3", "4", "5", "6", "7", "8", "9">>[v + 1]

RECURSIVE Join(_, _)
\* sep.join(parts) for parts that are one piece each
Join(parts, sep) ==
    IF parts = <<>> THEN <<>>
    ELSE IF Len(parts) = 1 THEN <<parts[1]>>
    ELSE <<parts[1], sep>> \o Join(Tail(parts), sep)

RECURSIVE JoinLines(_, _)
\* sep.join(parts) for parts that are sequences of pieces
JoinLines(parts, sep) ==
    IF parts = <<>> THEN <<>>
    ELSE IF Len(parts) = 1 THEN parts[1]
    ELSE parts[1] \o <<sep>> \o JoinLines(Tail(parts), sep)

SchemaDoc(id, type, tbl, col, ref_tbl, ref_col, txt, meta) ==
    [doc_id |-> id, doc_type |-> type, table |-> tbl, column |-> col,
     ref_table |-> ref_tbl, ref_column |-> ref_col, text |-> txt,
     meta |-> meta]

make_table_document(table, columns, foreign_keys) ==
    LET pk_cols == Column(SelectSeq(columns,
                       LAMBDA col : col.primary_key > 0), "name")
        ColumnDesc(column) ==
            LET flags == (IF column.primary_key > 0
                          THEN <<"PRIMARY KEY">> ELSE <<>>)
                         \o (IF column.notnull THEN <<"NOT NULL">> ELSE <<>>)
                flag_str == IF flags # <<>>
                            THEN <<" [">> \o Join(flags, " ") \o <<"]">>
                            ELSE <<>>
                col_type == IF column.type # "" THEN column.type
                            ELSE "UNKNOWN"
                sample_str ==
                    IF column.samples # <<>>
                    THEN <<" (ex: ">>
                         \o Join([i \in 1..Len(column.samples) |->
                                     StrOf(column.samples[i])], ", ")
                         \o <<")">>
                    ELSE <<>>
            IN <<" - ", column.name, " (", col_type, ")">>
                   \o flag_str \o sample_str
        \* the arrow of the source (U+2192) is written "->"
        FKeyLine(foreign_key) ==
            <<" - ", table, ".", foreign_key.from_col, " -> ",
              foreign_key.ref_table, ".", foreign_key.to_col>>
        primary_key_text ==
            IF pk_cols # <<>> THEN Join(pk_cols, ", ") ELSE <<"None">>
        column_descriptors ==
            JoinLines([i \in 1..Len(columns) |-> ColumnDesc(columns[i])], "\n")
        foreign_key_text ==
            IF foreign_keys # <<>>
            THEN JoinLines([i \in 1..Len(foreign_keys) |->
                               FKeyLine(foreign_keys[i])], "\n")
            ELSE <<"- None">>
    IN SchemaDoc(<<"table:", table>>, "table", table, PyNone, PyNone, PyNone,
                 <<"Table: ", table, "\n", "Primary key: ">>
                     \o primary_key_text
                     \o <<"\n", "Columns:\n">> \o column_descriptors
                     \o <<"\n", "Foreign key(s):\n">> \o foreign_key_text,
                 [table |-> table, pk_cols |-> pk_cols,
                  n_cols |-> Len(columns), n_fks |-> Len(foreign_keys)])

make_column_document(table, column) ==
    LET column_name == column.name
        data_type == IF column.type # "" THEN column.type ELSE "UNKNOWN"
        is_nullable == IF column.notnull THEN "no" ELSE "yes"
        is_primary_key == IF column.primary_key > 0 THEN "yes" ELSE "no"
        is_default == IF column.default # PyNone THEN column.default
                      ELSE "None"
        sample_text ==
            IF column.samples # <<>>
            THEN Join([i \in 1..Len(column.samples) |->
                          StrOf(column.samples[i])], ", ")
            ELSE <<"None">>
    IN SchemaDoc(<<"column:", table, ".", column_name>>, "column", table,
                 column_name, PyNone, PyNone,
                 <<"Column: ", table, ".", column_name, "\n",
                   "Data type: ", data_type, "\n",
                   "Nullable: ", is_nullable, "\n",
                   "Primary key: ", is_primary_key, "\n",
                   "Default: ", is_default, "\n",
                   "Sample values: ">> \o sample_text \o <<"\n">>,
                 [table |-> table, column |-> column_name,
                  dtype |-> data_type, primary_key |-> column.primary_key,
                  notnull |-> column.notnull])

make_foreign_key_document(table, foreign_key) ==
    LET from_col == foreign_key.from_col
        ref_table == foreign_key.ref_table
        to_col == foreign_key.to_col
    IN SchemaDoc(<<"rel:", table, ".", from_col, "->", ref_table, ".", to_col>>,
                 "relationship", table, from_col, ref_table, to_col,
                 <<"Relationship: ", table, ".", from_col, "references ",
                   ref_table, ".", to_col, "\n",
                   "Join hint: JOIN ", ref_table, " ON ", table, ".", from_col,
                   " = ", ref_table, ".", to_col, "\n",
                   "On update: ", foreign_key.on_update, "; On delete: ",
                   foreign_key.on_delete>>,
                 [id |-> foreign_key.id, seq |-> foreign_key.seq,
                  ref_table |-> ref_table, from_col |-> from_col,
                  to_col |-> to_col, on_update |-> foreign_key.on_update,
                  on_delete |-> foreign_key.on_delete,
                  match |-> foreign_key.match, table |-> table])

\* one pass of the loop of make_schema_documents over `table`
TableDocuments(master, table) ==
    LET tbl == TableNamed(master, table)
        columns == fetch_table_columns(tbl)
        foreign_keys == fetch_foreign_keys(tbl)
    IN <<make_table_document(table, columns, foreign_keys)>>
       \o [i \in 1..Len(columns) |-> make_column_document(table, columns[i])]
       \o [i \in 1..Len(foreign_keys) |->
              make_foreign_key_document(table, foreign_keys[i])]

-----------------------------------------------------------------------------
(* make_schema_documents, one table per step *)

EInit ==
    /\ e_pc = "start"
    /\ sqlite_master \in Schemas
    /\ tables = <<>>
    /\ e_index = 1
    /\ schema_documents = <<>>
    /\ RetrievalOff
    /\ ValidatorOff
    /\ IndexOff

\* lines 229-231
MakeSchemaDocumentsBegin ==
    /\ e_pc = "start"
    /\ tables' = fetch_tables(sqlite_master)
    /\ schema_documents' = <<>>
    /\ e_index' = 1
    /\ e_pc' = "loop"
    /\ UNCHANGED <<sqlite_master, r_vars, v_vars, i_vars>>

\* lines 233-254, one table
MakeSchemaDocumentsTable ==
    /\ e_pc = "loop"
    /\ e_index <= Len(tables)
    /\ schema_documents' =
           schema_documents \o TableDocuments(sqlite_master, tables[e_index])
    /\ e_index' = e_index + 1
    /\ UNCHANGED <<e_pc, sqlite_master, tables, r_vars, v_vars, i_vars>>

\* line 256
MakeSchemaDocumentsReturn ==
    /\ e_pc = "loop"
    /\ e_index > Len(tables)
    /\ e_pc' = "done"
    /\ UNCHANGED <<sqlite_master, tables, e_index, schema_documents,
                   r_vars, v_vars, i_vars>>

ENext ==
    \/ MakeSchemaDocumentsBegin
    \/ MakeSchemaDocumentsTable
    \/ MakeSchemaDocumentsReturn

SpecExtract == EInit /\ [][ENext]_vars

-----------------------------------------------------------------------------
(* Definitions the extraction claim is stated with *)

DocsOfType(type) ==
    SelectSeq(schema_documents, LAMBDA d : d.doc_type = type)

\* the foreign-key flag and the referenced table a document carries, under
\* either naming (is_foreign_key / related_table, or ref_table)
IsForeignKey(d) ==
    IF "is_foreign_key" \in DOMAIN d THEN d.is_foreign_key
    ELSE d.ref_table # PyNone

RelatedTable(d) ==
    IF "related_table" \in DOMAIN d THEN d.related_table ELSE d.ref_table

UserTables ==
    {t \in Range(sqlite_master) :
        MasterType(t) = "table" /\ ~ LikeSqlite(t.name)}

(* C7: every column that is the local column of a foreign key gets a column *)
(* document with the foreign-key flag set and the referenced table; for the *)
(* schema orders(id INTEGER PRIMARY KEY, customer_id INTEGER REFERENCES     *)
(* customers(id)) there is one table record with primary key <<"id">>, one  *)
(* foreign-key edge customer_id -> customers.id and two column documents,   *)
(* the one for customer_id flagged as a foreign key to customers.           *)
C7_ForeignKeyColumns ==
    e_pc = "done" =>
        /\ \A t \in UserTables :
              \A k \in 1..Len(t.foreign_keys) :
                 \E i \in 1..Len(schema_documents) :
                    LET d == schema_documents[i]
                    IN /\ d.doc_type = "column"
                       /\ d.table = t.name
                       /\ d.column = t.foreign_keys[k].from
                       /\ IsForeignKey(d)
                       /\ RelatedTable(d) = t.foreign_keys[k].table
        /\ sqlite_master = <<OrdersWithFk>> =>
              /\ Len(DocsOfType("table")) = 1
              /\ DocsOfType("table")[1].meta.pk_cols = <<"id">>
              /\ Len(DocsOfType("relationship")) = 1
              /\ Len(DocsOfType("column")) = 2

\* the part of C7 that does not involve the flag on the column document:
\* one table record, its primary key, one edge, two column documents
C7_Structure ==
    (e_pc = "done" /\ sqlite_master = <<OrdersWithFk>>) =>
        /\ Len(schema_documents) = 4
        /\ Len(DocsOfType("table")) = 1
        /\ DocsOfType("table")[1].meta.pk_cols = <<"id">>
        /\ DocsOfType("table")[1].meta.n_fks = 1
        /\ Len(DocsOfType("relationship")) = 1
        /\ LET rel == DocsOfType("relationship")[1]
           IN /\ rel.table = "orders" /\ rel.column = "customer_id"
              /\ rel.ref_table = "customers" /\ rel.ref_column = "id"
        /\ Len(DocsOfType("column")) = 2
        /\ Column(DocsOfType("column"), "column") = <<"id", "customer_id">>

-----------------------------------------------------------------------------
(* embed_documents_into_vector_db.py: upsert_schema_docs_to_lancedb *)

ColumnDoc(id, tbl, col, type, pk, fk, rel_tbl, rel_col, txt) ==
    [doc_id |-> id, table_name |-> tbl, column_name |-> col,
     data_type |-> type, is_primary_key |-> pk, is_foreign_key |-> fk,
     related_table |-> rel_tbl, related_column |-> rel_col,
     text_description |-> txt]

DocOrdersId ==
    ColumnDoc("column:orders.id", "orders", "id", "INTEGER", TRUE, FALSE,
              PyNone, PyNone, "Table: orders, Column: id.")
DocOrdersCustomer ==
    ColumnDoc("column:orders.customer_id", "orders", "customer_id", "INTEGER",
              FALSE, TRUE, "customers", "id",
              "Table: orders, Column: customer_id.")
DocCustomersId ==
    ColumnDoc("column:customers.id", "customers", "id", PyNone, TRUE, FALSE,
              PyNone, PyNone, "Table: customers, Column: id.")
\* a document without the attributes of a ColumnDoc
DocWithoutAttributes == [doc_id |-> "table:orders", text |-> "Table: orders"]

\* the document lists a rebuild is called with
RebuildInputs ==
    { <<>>,
      <<DocOrdersId>>,
      <<DocOrdersId, DocOrdersCustomer>>,
      <<DocCustomersId, DocOrdersCustomer>>,
      <<DocOrdersId, DocWithoutAttributes>> }

ColumnDocAttributes ==
    {"doc_id", "data_type", "table_name", "column_name", "related_table",
     "related_column", "text_description", "is_primary_key", "is_foreign_key"}

\* `x or ""`
OrEmpty(x) == IF x = PyNone \/ x = "" THEN "" ELSE x

\* lines 48-62: the list of dicts, or AttributeError
ToData(docs) ==
    IF \E i \in 1..Len(docs) : ~ (ColumnDocAttributes \subseteq DOMAIN docs[i])
    THEN [raised |-> "AttributeError", data |-> <<>>]
    ELSE [raised |-> "none",
          data |-> [i \in 1..Len(docs) |->
                      [id |-> docs[i].doc_id,
                       data_type |-> OrEmpty(docs[i].data_type),
                       table_name |-> OrEmpty(docs[i].table_name),
                       column_name |-> OrEmpty(docs[i].column_name),
                       related_table |-> OrEmpty(docs[i].related_table),
                       related_column |-> OrEmpty(docs[i].related_column),
                       text_description |-> docs[i].text_description,
                       is_primary_key |-> docs[i].is_primary_key,
                       is_foreign_key |-> docs[i].is_foreign_key]]]

\* db.create_table(table_name, schema=..., data=data, mode=mode): the vector
\* store's call, which either commits the table or raises and leaves the
\* collection as it was
create_table(coll, data, mode, store_fails) ==
    IF store_fails
    THEN [raised |-> "OSError", collection |-> coll]
    ELSE IF mode = "create" /\ coll.exists
    THEN [raised |-> "ValueError", collection |-> coll]
    ELSE IF mode = "append"
    THEN [raised |-> "none",
          collection |-> [exists |-> TRUE, rows |-> coll.rows \o data]]
    ELSE [raised |-> "none", collection |-> [exists |-> TRUE, rows |-> data]]

\* mutant: the documents are added to the existing table
upsert_schema_docs_appending(coll, docs, store_fails) ==
    LET converted == ToData(docs)
    IN IF converted.raised # "none"
       THEN [raised |-> converted.raised, collection |-> coll]
       ELSE create_table(coll, converted.data, "append", store_fails)

upsert_schema_docs_to_lancedb(coll, docs, store_fails) ==
    LET converted == ToData(docs)
    IN IF converted.raised # "none"
       THEN [raised |-> converted.raised, collection |-> coll]
       ELSE create_table(coll, converted.data, "overwrite", store_fails)

-----------------------------------------------------------------------------
(* Rebuilds of one collection, and the retrievals between them *)

IInit ==
    /\ collection = [exists |-> FALSE, rows |-> <<>>]
    /\ last_generation = <<>>
    /\ generations = {<<>>}
    /\ observed = <<>>
    /\ i_error = "none"
    /\ rebuilds = 0
    /\ RetrievalOff
    /\ ValidatorOff
    /\ ExtractOff

UpsertSchemaDocs ==
    /\ rebuilds < MaxRebuilds
    /\ \E docs \in RebuildInputs, store_fails \in BOOLEAN :
          LET out == upsert_schema_docs_to_lancedb(collection, docs,
                                                   store_fails)
          IN /\ collection' = out.collection
             /\ i_error' = out.raised
             /\ last_generation' =
                    IF out.raised = "none" THEN docs ELSE last_generation
             /\ generations' =
                    IF out.raised = "none" THEN generations \cup {docs}
                    ELSE generations
    /\ rebuilds' = rebuilds + 1
    /\ UNCHANGED <<observed, r_vars, v_vars, e_vars>>

\* vector_db.search(...) of get_relevant_documents reads the collection
SearchCollection ==
    /\ observed' = collection.rows
    /\ UNCHANGED <<collection, last_generation, generations, i_error,
                   rebuilds, r_vars, v_vars, e_vars>>

INext ==
    \/ UpsertSchemaDocs
    \/ SearchCollection

SpecIndex == IInit /\ [][INext]_vars

-----------------------------------------------------------------------------

(* C8: after any sequence of rebuilds the collection holds exactly the      *)
(* documents of the last successful rebuild; a rebuild that fails leaves    *)
(* the collection as it was; what a retrieval sees is always one whole      *)
(* generation.                                                              *)
C8_LastGeneration ==
    /\ Column(collection.rows, "id") = Column(last_generation, "doc_id")
    /\ Column(collection.rows, "text_description")
           = Column(last_generation, "text_description")
    /\ \E g \in generations :
           Column(observed, "id") = Column(g, "doc_id")

C8_FailedRebuildKeeps ==
    [][(rebuilds' # rebuilds /\ i_error' # "none")
          => collection' = collection]_vars

=============================================================================
